---- MODULE Spec2Model ----
(***************************************************************************)
(* ble-util (src/src/main.rs): one command-line invocation, from main's    *)
(* dispatch on the arguments to the process result.  The BLE stack         *)
(* (btleplug) and standard input are the environment: every call into     *)
(* them is one step whose outcome (Ok with a value, Err, None) is chosen   *)
(* nondeterministically.  `log` records every such call in program order,  *)
(* `out` every line printed.                                               *)
(***************************************************************************)
EXTENDS Integers, Sequences, FiniteSets, TLC

\* ------------------------------------------------------------- bounds
\* most peripherals central.peripherals() returns
MaxPeriph == 2
\* longest generated standard input, in characters
MaxInput == 1
\* most iterations of write's `while let` loop that are followed
MaxLoop == 3

\* ------------------------------------------------- program constants
\* Duration::from_secs(3) in scan_devices, ping and read
ScanWindowSecs == 3
\* Duration::from_secs(2) in write
WriteWindowSecs == 2

CHAR_WRITE == "6e400002-b5a3-f393-e0a9-e50e24dcca9e"
CHAR_READ == "6e400003-b5a3-f393-e0a9-e50e24dcca9e"

None == "None"

\* ------------------------------------------- formatting (to_string)
HexUpper == <<"0","1","2","3","4","5","6","7","8","9","A","B","C","D","E","F">>
HexLower == <<"0","1","2","3","4","5","6","7","8","9","a","b","c","d","e","f">>

HexByte(tab, b) == tab[(b \div 16) + 1] \o tab[(b % 16) + 1]

RECURSIVE HexRange(_, _, _, _)
HexRange(tab, bytes, i, j) ==
    IF i > j THEN "" ELSE HexByte(tab, bytes[i]) \o HexRange(tab, bytes, i + 1, j)

AddressFormat(tab, a) ==
    HexByte(tab, a[1]) \o ":" \o HexByte(tab, a[2]) \o ":" \o
    HexByte(tab, a[3]) \o ":" \o HexByte(tab, a[4]) \o ":" \o
    HexByte(tab, a[5]) \o ":" \o HexByte(tab, a[6])

\* props.address.to_string(): six bytes, upper-case hex, colon separated
AddressToString(a) == AddressFormat(HexUpper, a)

\* a.uuid.to_string(): sixteen bytes, lower-case hex, hyphenated 8-4-4-4-12
UuidToString(u) ==
    HexRange(HexLower, u, 1, 4) \o "-" \o HexRange(HexLower, u, 5, 6) \o "-" \o
    HexRange(HexLower, u, 7, 8) \o "-" \o HexRange(HexLower, u, 9, 10) \o "-" \o
    HexRange(HexLower, u, 11, 16)

\* ------------------------------------------------------ environment
\* addresses of the devices in radio range
Addr1 == <<170, 187, 204, 221, 238, 1>>
Addr2 == <<170, 187, 204, 221, 238, 2>>

\* what peripheral.properties() yields for a device: address and local_name
PeriphKinds ==
    { [address |-> Addr1, local_name |-> "Sensor"],
      [address |-> Addr1, local_name |-> None],
      [address |-> Addr2, local_name |-> None] }

RECURSIVE SeqsUpTo(_, _)
SeqsUpTo(S, n) ==
    IF n = 0 THEN {<<>>}
    ELSE LET shorter == SeqsUpTo(S, n - 1)
         IN shorter \cup {Append(s, x) : s \in {t \in shorter : Len(t) = n - 1}, x \in S}

\* the lists central.peripherals() may return
PeriphLists == SeqsUpTo(PeriphKinds, MaxPeriph)

\* GATT uuids: the Nordic UART service with its two characteristics, and
\* the battery service with its level characteristic
UartService == <<110, 64, 0, 1, 181, 163, 243, 147, 224, 169, 229, 14, 36, 220, 202, 158>>
UartWrite == <<110, 64, 0, 2, 181, 163, 243, 147, 224, 169, 229, 14, 36, 220, 202, 158>>
UartRead == <<110, 64, 0, 3, 181, 163, 243, 147, 224, 169, 229, 14, 36, 220, 202, 158>>
BatteryService == <<0, 0, 24, 15, 0, 0, 16, 0, 128, 0, 0, 128, 95, 155, 52, 251>>
BatteryLevel == <<0, 0, 42, 25, 0, 0, 16, 0, 128, 0, 0, 128, 95, 155, 52, 251>>

Char(u, s, p) == [uuid |-> u, service_uuid |-> s, properties |-> p]
Service(u, cs) == [uuid |-> u, characteristics |-> cs]

\* the service sets dev.services() may hold after discovery; services and
\* the characteristics of a service are ordered sets (BTreeSet), by uuid
GattConfigs ==
    { <<>>,
      << Service(UartService, << Char(UartWrite, UartService, "WRITE_WITHOUT_RESPONSE"),
                                 Char(UartRead, UartService, "READ") >>) >>,
      << Service(UartService, << Char(UartWrite, UartService, "WRITE_WITHOUT_RESPONSE") >>) >>,
      << Service(UartService, << Char(UartRead, UartService, "READ") >>) >>,
      << Service(BatteryService, << Char(BatteryLevel, BatteryService, "READ"),
                                    Char(UartRead, BatteryService, "READ | NOTIFY") >>),
         Service(UartService, << Char(UartWrite, UartService, "WRITE_WITHOUT_RESPONSE"),
                                 Char(UartRead, UartService, "READ") >>) >> }

\* the byte vectors dev.read() may return
ReadValues == { <<>>, <<79, 75>> }

\* ------------------------------------------------------ command line
Program == "ble-util"
TargetAddrs == { "AA:BB:CC:DD:EE:01", "aa:bb:cc:dd:ee:01" }
TargetUuids == { CHAR_READ, "6E400003-B5A3-F393-E0A9-E50E24DCCA9E",
                 "00002a19-0000-1000-8000-00805f9b34fb" }

ArgVectors ==
    { <<Program>>, <<Program, "scan">>, <<Program, "help">>, <<Program, "bogus">>,
      <<Program, "ping">>, <<Program, "read">>, <<Program, "write">> }
    \cup { <<Program, c, a>> : c \in {"ping", "read", "write"}, a \in TargetAddrs }
    \cup { <<Program, "read", a, u>> : a \in TargetAddrs, u \in TargetUuids }

\* ---------------------------------------------------- standard input
Alphabet == { "a", " ", "\n" }
Hello == <<"h", "e", "l", "l", "o">>
TwoLines == <<"a", "\n", "b", "\n">>
StdinInputs == SeqsUpTo(Alphabet, MaxInput) \cup { Hello, TwoLines, <<" ", "a", "\n">> }

\* the UTF-8 encoding of the characters used (str::as_bytes)
Utf8 == [c \in Alphabet \cup {"b", "h", "e", "l", "o"} |->
            CASE c = "a" -> 97 [] c = "b" -> 98 [] c = "h" -> 104 [] c = "e" -> 101
              [] c = "l" -> 108 [] c = "o" -> 111 [] c = " " -> 32 [] c = "\n" -> 10]

as_bytes(s) == [k \in 1..Len(s) |-> Utf8[s[k]]]

IsWhitespace(c) == c \in {" ", "\n"}

\* str::trim: leading and trailing whitespace removed
RECURSIVE trim_start(_)
trim_start(s) ==
    IF s # <<>> /\ IsWhitespace(Head(s)) THEN trim_start(Tail(s)) ELSE s

RECURSIVE trim_end(_)
trim_end(s) ==
    IF s # <<>> /\ IsWhitespace(s[Len(s)]) THEN trim_end(SubSeq(s, 1, Len(s) - 1)) ELSE s

trim(s) == trim_end(trim_start(s))

\* ------------------------------------------------------------ state
VARIABLES
    args,         \* std::env::args(), the program name first
    stdin,        \* the characters of standard input not yet consumed
    pc,           \* the statement the process is at
    result,       \* "running", or how main ended: "Ok", "Err", "panic"
    peripherals,  \* the list central.peripherals() returned
    i,            \* position of the `for` loop over peripherals
    dev,          \* the `dev` slot: 0 for None, else the position of the peripheral
    services,     \* dev.services() once discovered
    ch,           \* positions in dev.characteristics() of the resolved characteristics
    buf,          \* write's line buffer
    iter,         \* iterations of write's loop started
    log,          \* every call into the BLE stack, the timer and stdin, in order
    out           \* every line printed, in order

vars == <<args, stdin, pc, result, peripherals, i, dev, services, ch, buf, iter, log, out>>

\* args.get(k), k counted from 0 as in the source
ArgGet(k) == IF Len(args) > k THEN args[k + 1] ELSE None

command == ArgGet(1)
addr == ArgGet(2)
char_id == ArgGet(3)

\* one entry of log: the call, the peripheral and characteristic it is made
\* on (0: none), whether it returned Ok, and its arguments or result
NoCall == [op |-> "", dev |-> 0, ok |-> TRUE, ch |-> 0, data |-> <<>>, line |-> <<>>,
           n |-> 0, mode |-> ""]

\* one entry of out
Stdout(text) == [stream |-> "stdout", text |-> text, bytes |-> <<>>]
Stderr(text) == [stream |-> "stderr", text |-> text, bytes |-> <<>>]
\* println!("{:?}", res) of a byte vector
StdoutBytes(b) == [stream |-> "stdout", text |-> "{:?}", bytes |-> b]

Init ==
    /\ args \in ArgVectors
    \* only write reads standard input
    /\ stdin \in (IF Len(args) = 3 /\ args[2] = "write" THEN StdinInputs ELSE {<<>>})
    /\ pc = "main"
    /\ result = "running"
    /\ peripherals = <<>>
    /\ i = 1
    /\ dev = 0
    /\ services = <<>>
    /\ ch = [write |-> 0, read |-> 0]
    /\ buf = <<>>
    /\ iter = 0
    /\ log = <<>>
    /\ out = <<>>

\* `?` on an Err, a panic, or a return: the process ends
End(r) == pc' = "done" /\ result' = r

\* help(): the usage text on stderr
HelpOut(msg) == (IF msg = "" THEN <<>> ELSE <<Stderr(msg)>>) \o <<Stderr("HELP_MSG")>>

\* Main without read's check of args.get(3)
MainNoCharCheck ==
    /\ pc = "main"
    /\ UNCHANGED <<args, stdin, peripherals, i, dev, services, ch, buf, iter, log>>
    /\ IF command = None
         THEN out' = out \o HelpOut("No command specified") /\ End("Ok")
       ELSE IF command \in {"ping", "read", "write"} /\ addr = None
         THEN out' = out \o HelpOut("No address specified") /\ End("Ok")
       ELSE IF command \in {"scan", "ping", "read", "write"}
         THEN out' = out /\ pc' = "manager" /\ result' = result
       ELSE IF command = "help"
         THEN out' = out \o HelpOut("") /\ End("Ok")
       ELSE out' = out \o HelpOut("Unrecognized command '" \o command \o "'") /\ End("Ok")

\* main: the dispatch on the arguments
Main ==
    /\ pc = "main"
    /\ UNCHANGED <<args, stdin, peripherals, i, dev, services, ch, buf, iter, log>>
    /\ IF command = None
         THEN out' = out \o HelpOut("No command specified") /\ End("Ok")
       ELSE IF command \in {"ping", "read", "write"} /\ addr = None
         THEN out' = out \o HelpOut("No address specified") /\ End("Ok")
       ELSE IF command = "read" /\ char_id = None
         THEN out' = out \o HelpOut("No characteristic uuid specified") /\ End("Ok")
       ELSE IF command \in {"scan", "ping", "read", "write"}
         THEN out' = out /\ pc' = "manager" /\ result' = result
       ELSE IF command = "help"
         THEN out' = out \o HelpOut("") /\ End("Ok")
       ELSE out' = out \o HelpOut("Unrecognized command '" \o command \o "'") /\ End("Ok")

\* Try with the error dropped and the command ended as a success
TrySwallow(ok, next) == IF ok THEN pc' = next /\ result' = result ELSE End("Ok")

\* the `?` after an awaited call: an Err ends the command with that error
Try(ok, next) == IF ok THEN pc' = next /\ result' = result ELSE End("Err")

\* Manager::new().await?
ManagerNew ==
    /\ pc = "manager"
    /\ \E ok \in BOOLEAN :
         /\ log' = Append(log, [NoCall EXCEPT !.op = "Manager::new", !.ok = ok])
         /\ Try(ok, "adapters")
    /\ UNCHANGED <<args, stdin, peripherals, i, dev, services, ch, buf, iter, out>>

\* manager.adapters().await? and adapters.into_iter().nth(0).unwrap()
Adapters ==
    /\ pc = "adapters"
    /\ \E ok \in BOOLEAN, count \in 0..1 :
         /\ ~ok => count = 0
         /\ log' = Append(log, [NoCall EXCEPT !.op = "adapters", !.ok = ok, !.n = count])
         /\ IF ok /\ count = 0 THEN End("panic") ELSE Try(ok, "start_scan")
    /\ UNCHANGED <<args, stdin, peripherals, i, dev, services, ch, buf, iter, out>>

\* central.start_scan(ScanFilter::default()).await?
StartScan ==
    /\ pc = "start_scan"
    /\ \E ok \in BOOLEAN :
         /\ log' = Append(log, [NoCall EXCEPT !.op = "start_scan", !.ok = ok])
         /\ Try(ok, "sleep")
    /\ UNCHANGED <<args, stdin, peripherals, i, dev, services, ch, buf, iter, out>>

\* Window with the three seconds of the other commands in write too
WindowOfScan == ScanWindowSecs

\* the scan window of the command
Window == IF command = "write" THEN WriteWindowSecs ELSE ScanWindowSecs

\* time::sleep(Duration::from_secs(..)).await
Sleep ==
    /\ pc = "sleep"
    /\ log' = Append(log, [NoCall EXCEPT !.op = "sleep", !.n = Window])
    /\ pc' = "peripherals"
    /\ UNCHANGED <<args, stdin, result, peripherals, i, dev, services, ch, buf, iter, out>>

\* central.peripherals().await?, the head of the `for` loop
Peripherals ==
    /\ pc = "peripherals"
    /\ \E ok \in BOOLEAN :
         \E ps \in (IF ok THEN PeriphLists ELSE {<<>>}) :
            /\ log' = Append(log, [NoCall EXCEPT !.op = "peripherals", !.ok = ok,
                                                 !.n = Len(ps)])
            /\ peripherals' = ps
            /\ Try(ok, IF command = "scan" THEN "scan_loop" ELSE "locate_loop")
    /\ i' = 1
    /\ UNCHANGED <<args, stdin, dev, services, ch, buf, iter, out>>

\* the outcomes of peripheral.properties().await: Err, Ok(None), Ok(Some(props))
PropertiesOutcomes == {"Err", "None", "Some"}

\* `?` then unwrap() on the outcome of properties()
TryUnwrap(r, next) ==
    IF r = "None" THEN End("panic") ELSE Try(r # "Err", next)

\* ScanLine without the unwrap_or: an absent name is printed as it is
ScanLineNoFallback(props) ==
    AddressToString(props.address) \o ": " \o props.local_name

\* println!("{}: {}", props.address, props.local_name.unwrap_or("Unknown".into()))
ScanLine(props) ==
    AddressToString(props.address) \o ": " \o
        (IF props.local_name = None THEN "Unknown" ELSE props.local_name)

\* scan_devices: one iteration of the loop over the peripherals
ScanLoop ==
    /\ pc = "scan_loop"
    /\ i <= Len(peripherals)
    /\ \E r \in PropertiesOutcomes :
         /\ log' = Append(log, [NoCall EXCEPT !.op = "properties", !.dev = i,
                                              !.ok = (r # "Err"),
                                              !.n = IF r = "Some" THEN 1 ELSE 0])
         /\ TryUnwrap(r, "scan_loop")
         /\ out' = IF r = "Some" THEN Append(out, Stdout(ScanLine(peripherals[i])))
                   ELSE out
    /\ i' = i + 1
    /\ UNCHANGED <<args, stdin, peripherals, dev, services, ch, buf, iter>>

\* scan_devices: the loop is over, Ok(())
ScanEnd ==
    /\ pc = "scan_loop"
    /\ i > Len(peripherals)
    /\ End("Ok")
    /\ UNCHANGED <<args, stdin, peripherals, i, dev, services, ch, buf, iter, log, out>>

\* AddrMatches made case-insensitive
AddrMatchesIgnoreCase(props, target) ==
    \/ AddressFormat(HexUpper, props.address) = target
    \/ AddressFormat(HexLower, props.address) = target

\* p.properties()...address.to_string().eq(addr)
AddrMatches(props, target) == AddressToString(props.address) = target

\* Select keeping the first match, as a `break` after the assignment would
SelectFirst(slot, k, props, target) ==
    IF slot = 0 /\ AddressToString(props.address) = target THEN k ELSE slot

\* if <match> { dev = Some(p); }: the slot is overwritten, the loop goes on
Select(slot, k, props, target) == IF AddrMatches(props, target) THEN k ELSE slot

\* LocateLoop with a break on the first match
LocateLoopBreak ==
    /\ pc = "locate_loop"
    /\ i <= Len(peripherals)
    /\ \E r \in PropertiesOutcomes :
         /\ log' = Append(log, [NoCall EXCEPT !.op = "properties", !.dev = i,
                                              !.ok = (r # "Err"),
                                              !.n = IF r = "Some" THEN 1 ELSE 0])
         /\ TryUnwrap(r, "locate_loop")
         /\ dev' = IF r = "Some" THEN Select(dev, i, peripherals[i], addr) ELSE dev
         /\ i' = IF r = "Some" /\ AddrMatches(peripherals[i], addr)
                   THEN Len(peripherals) + 1 ELSE i + 1
    /\ UNCHANGED <<args, stdin, peripherals, services, ch, buf, iter, out>>

\* ping, read, write: one iteration of the loop that looks for the device
LocateLoop ==
    /\ pc = "locate_loop"
    /\ i <= Len(peripherals)
    /\ \E r \in PropertiesOutcomes :
         /\ log' = Append(log, [NoCall EXCEPT !.op = "properties", !.dev = i,
                                              !.ok = (r # "Err"),
                                              !.n = IF r = "Some" THEN 1 ELSE 0])
         /\ TryUnwrap(r, "locate_loop")
         /\ dev' = IF r = "Some" THEN Select(dev, i, peripherals[i], addr) ELSE dev
    /\ i' = i + 1
    /\ UNCHANGED <<args, stdin, peripherals, services, ch, buf, iter, out>>

\* if dev.is_none() { eprintln!("Unable to find device"); return Ok(()); }
LocateEnd ==
    /\ pc = "locate_loop"
    /\ i > Len(peripherals)
    /\ IF dev = 0
         THEN out' = Append(out, Stderr("Unable to find device")) /\ End("Ok")
         ELSE out' = out /\ pc' = "connect" /\ result' = result
    /\ UNCHANGED <<args, stdin, peripherals, i, dev, services, ch, buf, iter, log>>

\* Connect without the `?`: a failed connect is followed by discovery
ConnectUnchecked ==
    /\ pc = "connect"
    /\ \E ok \in BOOLEAN :
         /\ log' = Append(log, [NoCall EXCEPT !.op = "connect", !.dev = dev, !.ok = ok])
    /\ pc' = "discover"
    /\ out' = Append(out, Stdout("Connected"))
    /\ UNCHANGED <<args, stdin, result, peripherals, i, dev, services, ch, buf, iter>>

\* Connect preceded by central.stop_scan(), as is done to free the radio
ConnectAfterStopScan ==
    /\ pc = "connect"
    /\ \E ok \in BOOLEAN :
         /\ log' = log \o << [NoCall EXCEPT !.op = "stop_scan"],
                             [NoCall EXCEPT !.op = "connect", !.dev = dev, !.ok = ok] >>
         /\ Try(ok, "discover")
         /\ out' = IF ok THEN Append(out, Stdout("Connected")) ELSE out
    /\ UNCHANGED <<args, stdin, peripherals, i, dev, services, ch, buf, iter>>

\* Connect with the println! moved before the call
ConnectPrintFirst ==
    /\ pc = "connect"
    /\ \E ok \in BOOLEAN :
         /\ log' = Append(log, [NoCall EXCEPT !.op = "connect", !.dev = dev, !.ok = ok])
         /\ Try(ok, "discover")
    /\ out' = Append(out, Stdout("Connected"))
    /\ UNCHANGED <<args, stdin, peripherals, i, dev, services, ch, buf, iter>>

\* dev.connect().await?; println!("Connected");
Connect ==
    /\ pc = "connect"
    /\ \E ok \in BOOLEAN :
         /\ log' = Append(log, [NoCall EXCEPT !.op = "connect", !.dev = dev, !.ok = ok])
         /\ Try(ok, "discover")
         /\ out' = IF ok THEN Append(out, Stdout("Connected")) ELSE out
    /\ UNCHANGED <<args, stdin, peripherals, i, dev, services, ch, buf, iter>>

\* the statement after discover_services in each command
AfterDiscover ==
    CASE command = "ping" -> "ping_print"
      [] command = "read" -> "read_find"
      [] command = "write" -> "write_find"

\* dev.discover_services().await?
DiscoverServices ==
    /\ pc = "discover"
    /\ \E ok \in BOOLEAN :
         \E g \in (IF ok THEN GattConfigs ELSE {<<>>}) :
            /\ log' = Append(log, [NoCall EXCEPT !.op = "discover_services", !.dev = dev,
                                                 !.ok = ok])
            /\ services' = g
            /\ Try(ok, AfterDiscover)
    /\ UNCHANGED <<args, stdin, peripherals, i, dev, ch, buf, iter, out>>

\* the order of uuids (derived Ord): byte by byte
RECURSIVE BytesLess(_, _, _)
BytesLess(a, b, k) ==
    IF k > Len(a) THEN FALSE
    ELSE IF a[k] # b[k] THEN a[k] < b[k]
    ELSE BytesLess(a, b, k + 1)

\* the order of characteristics in a BTreeSet: by uuid, then by service_uuid
CharLess(x, y) ==
    \/ BytesLess(x.uuid, y.uuid, 1)
    \/ x.uuid = y.uuid /\ BytesLess(x.service_uuid, y.service_uuid, 1)

RECURSIVE Insert(_, _)
Insert(sorted, x) ==
    IF sorted = <<>> THEN <<x>>
    ELSE IF x = Head(sorted) THEN sorted
    ELSE IF CharLess(x, Head(sorted)) THEN <<x>> \o sorted
    ELSE <<Head(sorted)>> \o Insert(Tail(sorted), x)

RECURSIVE Collect(_, _)
Collect(cs, sorted) ==
    IF cs = <<>> THEN sorted ELSE Collect(Tail(cs), Insert(sorted, Head(cs)))

\* dev.characteristics(): the characteristics of all services, as one ordered set
RECURSIVE characteristics(_)
characteristics(svcs) ==
    IF svcs = <<>> THEN <<>>
    ELSE Collect(Head(svcs).characteristics, characteristics(Tail(svcs)))

\* chars.iter().find(|a| a.uuid.to_string().eq(id)): the position of the first
\* characteristic whose uuid string is id, 0 for None
RECURSIVE FindFrom(_, _, _)
FindFrom(chars, id, k) ==
    IF k > Len(chars) THEN 0
    ELSE IF UuidToString(chars[k].uuid) = id THEN k
    ELSE FindFrom(chars, id, k + 1)

\* Find keeping the last characteristic with the uuid, as the loop over the
\* peripherals keeps the last match
FindLast(chars, id) ==
    LET found == {k \in 1..Len(chars) : UuidToString(chars[k].uuid) = id}
    IN IF found = {} THEN 0 ELSE CHOOSE k \in found : \A m \in found : m <= k

\* Find falling back to the first characteristic when none has the uuid
FindOrFirst(chars, id) ==
    IF FindFrom(chars, id, 1) = 0 /\ chars # <<>> THEN 1 ELSE FindFrom(chars, id, 1)

Find(chars, id) == FindFrom(chars, id, 1)

\* the lines ping prints for the characteristics of a service
RECURSIVE CharLines(_)
CharLines(cs) ==
    IF cs = <<>> THEN <<>>
    ELSE <<Stdout("\t" \o UuidToString(Head(cs).uuid) \o ": " \o Head(cs).properties)>>
         \o CharLines(Tail(cs))

\* the lines ping prints for the services
RECURSIVE ServiceLines(_)
ServiceLines(svcs) ==
    IF svcs = <<>> THEN <<>>
    ELSE <<Stdout(UuidToString(Head(svcs).uuid) \o ":")>>
         \o CharLines(Head(svcs).characteristics) \o ServiceLines(Tail(svcs))

\* ping: print the services and characteristics, Ok(())
PingPrint ==
    /\ pc = "ping_print"
    /\ out' = out \o <<Stdout("Services:")>> \o ServiceLines(services)
    /\ End("Ok")
    /\ UNCHANGED <<args, stdin, peripherals, i, dev, services, ch, buf, iter, log>>

\* one lookup in dev.characteristics(), as it is recorded in log
Lookup(id, k) == [NoCall EXCEPT !.op = "find", !.dev = dev, !.ok = (k # 0), !.ch = k]

\* read: chars.iter().find(..char_id..).unwrap()
ReadFind ==
    /\ pc = "read_find"
    /\ LET k == Find(characteristics(services), char_id)
       IN /\ log' = Append(log, Lookup(char_id, k))
          /\ ch' = [ch EXCEPT !.read = k]
          /\ IF k = 0 THEN End("panic") ELSE pc' = "read" /\ result' = result
    /\ UNCHANGED <<args, stdin, peripherals, i, dev, services, buf, iter, out>>

\* ReadChar with the result dropped instead of printed
ReadCharNoPrint ==
    /\ pc = "read"
    /\ \E ok \in BOOLEAN :
         \E v \in (IF ok THEN ReadValues ELSE {<<>>}) :
            /\ log' = Append(log, [NoCall EXCEPT !.op = "read", !.dev = dev, !.ok = ok,
                                                 !.ch = ch.read, !.data = v])
            /\ IF ok THEN End("Ok") ELSE End("Err")
    /\ out' = out
    /\ UNCHANGED <<args, stdin, peripherals, i, dev, services, ch, buf, iter>>

\* read: let res = dev.read(ch).await?; println!("{:?}", res); Ok(())
ReadChar ==
    /\ pc = "read"
    /\ \E ok \in BOOLEAN :
         \E v \in (IF ok THEN ReadValues ELSE {<<>>}) :
            /\ log' = Append(log, [NoCall EXCEPT !.op = "read", !.dev = dev, !.ok = ok,
                                                 !.ch = ch.read, !.data = v])
            /\ IF ok THEN out' = Append(out, StdoutBytes(v)) /\ End("Ok")
                     ELSE out' = out /\ End("Err")
    /\ UNCHANGED <<args, stdin, peripherals, i, dev, services, ch, buf, iter>>

\* write: the two lookups, CHAR_WRITE then CHAR_READ, each unwrapped, and
\* let mut buf = String::new()
WriteFind ==
    /\ pc = "write_find"
    /\ LET w == Find(characteristics(services), CHAR_WRITE)
           r == Find(characteristics(services), CHAR_READ)
       IN IF w = 0
            THEN /\ log' = Append(log, Lookup(CHAR_WRITE, w))
                 /\ ch' = ch
                 /\ End("panic")
            ELSE /\ log' = log \o <<Lookup(CHAR_WRITE, w), Lookup(CHAR_READ, r)>>
                 /\ ch' = [write |-> w, read |-> r]
                 /\ IF r = 0 THEN End("panic") ELSE pc' = "read_line" /\ result' = result
    /\ buf' = <<>>
    /\ UNCHANGED <<args, stdin, peripherals, i, dev, services, iter, out>>

\* the length of the line read_line takes from input: up to and including
\* the first newline, or all of it
RECURSIVE LineLen(_, _)
LineLen(input, k) ==
    IF k > Len(input) THEN Len(input)
    ELSE IF input[k] = "\n" THEN k
    ELSE LineLen(input, k + 1)

\* the condition of `while let Ok(_) = stdin().read_line(&mut buf)`
LoopContinues(ok, n) == ok

\* write: stdin().read_line(&mut buf), which appends the line to buf and
\* returns Ok(n), n the bytes read (0 at end of input), or an Err
ReadLine ==
    /\ pc = "read_line"
    /\ iter < MaxLoop
    /\ iter' = iter + 1
    /\ \E ok \in BOOLEAN :
         LET n == IF ok THEN LineLen(stdin, 1) ELSE 0
             line == SubSeq(stdin, 1, n)
         IN /\ log' = Append(log, [NoCall EXCEPT !.op = "read_line", !.ok = ok,
                                                 !.line = line, !.n = n])
            /\ buf' = buf \o line
            /\ stdin' = SubSeq(stdin, n + 1, Len(stdin))
            /\ IF LoopContinues(ok, n) THEN pc' = "write" /\ result' = result
                                       ELSE End("Ok")
    /\ UNCHANGED <<args, peripherals, i, dev, services, ch, out>>

\* the payload of the write: buf.trim().as_bytes()
Payload(b) == as_bytes(trim(b))

\* WriteChar without the `?`: a failed write is followed by its read
WriteCharUnchecked ==
    /\ pc = "write"
    /\ \E ok \in BOOLEAN :
         /\ log' = Append(log, [NoCall EXCEPT !.op = "write", !.dev = dev, !.ok = ok,
                                              !.ch = ch.write, !.data = as_bytes(trim(buf)),
                                              !.mode = "WithoutResponse"])
    /\ pc' = "write_read"
    /\ out' = Append(out, Stdout("()"))
    /\ UNCHANGED <<args, stdin, result, peripherals, i, dev, services, ch, buf, iter>>

\* write: dev.write(ch_write, buf.trim().as_bytes(), WriteType::WithoutResponse)
\* .await?; println!("{:?}", res);
WriteChar ==
    /\ pc = "write"
    /\ \E ok \in BOOLEAN :
         /\ log' = Append(log, [NoCall EXCEPT !.op = "write", !.dev = dev, !.ok = ok,
                                              !.ch = ch.write, !.data = Payload(buf),
                                              !.mode = "WithoutResponse"])
         /\ Try(ok, "write_read")
         /\ out' = IF ok THEN Append(out, Stdout("()")) ELSE out
    /\ UNCHANGED <<args, stdin, peripherals, i, dev, services, ch, buf, iter>>

\* write: let res = dev.read(ch_read).await?; println!("{:?}", res);
WriteRead ==
    /\ pc = "write_read"
    /\ \E ok \in BOOLEAN :
         \E v \in (IF ok THEN ReadValues ELSE {<<>>}) :
            /\ log' = Append(log, [NoCall EXCEPT !.op = "read", !.dev = dev, !.ok = ok,
                                                 !.ch = ch.read, !.data = v])
            /\ Try(ok, "read_line")
            /\ out' = IF ok THEN Append(out, StdoutBytes(v)) ELSE out
    /\ UNCHANGED <<args, stdin, peripherals, i, dev, services, ch, buf, iter>>

Next ==
    \/ Main
    \/ ManagerNew
    \/ Adapters
    \/ StartScan
    \/ Sleep
    \/ Peripherals
    \/ ScanLoop
    \/ ScanEnd
    \/ LocateLoop
    \/ LocateEnd
    \/ Connect
    \/ DiscoverServices
    \/ PingPrint
    \/ ReadFind
    \/ ReadChar
    \/ WriteFind
    \/ ReadLine
    \/ WriteChar
    \/ WriteRead

Spec == Init /\ [][Next]_vars

\* ------------------------------------------------------- properties
Done == pc = "done"

Locating == command \in {"ping", "read", "write"} /\ addr # None

\* positions of log holding a call of one of the given kinds
Calls(ops) == {k \in 1..Len(log) : log[k].op \in ops}

\* central.peripherals() has returned its list
Enumerated == \E k \in Calls({"peripherals"}) : log[k].ok

\* positions of the enumerated peripherals whose address string is the target
Matching == {k \in 1..Len(peripherals) : AddressToString(peripherals[k].address) = addr}

\* the greatest position of a set of positions, 0 for the empty set
Last(S) == IF S = {} THEN 0 ELSE CHOOSE k \in S : \A m \in S : m <= k

LastMatching == LET found == Matching IN Last(found)

\* the properties of every enumerated peripheral were queried and obtained
AllPropertiesObtained ==
    /\ Enumerated
    /\ \A p \in 1..Len(peripherals) :
         \E k \in Calls({"properties"}) : log[k].dev = p /\ log[k].ok /\ log[k].n = 1

NotFoundReported ==
    /\ \E k \in 1..Len(out) : out[k] = Stderr("Unable to find device")
    /\ result = "Ok"

NoSession == Calls({"connect", "discover_services", "find", "read", "write"}) = {}

SeenMatching ==
    {p \in Matching :
        \E k \in Calls({"properties"}) : log[k].dev = p /\ log[k].ok /\ log[k].n = 1}

\* every connect attempted is on the last enumerated peripheral with the
\* target address, whose address string is the target exactly
ConnectsOnLastMatch ==
    LET connects == Calls({"connect"})
    IN connects # {} =>
         LET last == LastMatching
         IN \A k \in connects :
               /\ log[k].dev = last
               /\ log[k].dev # 0
               /\ AddressToString(peripherals[log[k].dev].address) = addr

SessionBefore(k, d) ==
    \E a \in Calls({"connect"}), b \in Calls({"discover_services"}) :
        /\ a < b /\ b < k
        /\ log[a].ok /\ log[b].ok
        /\ log[a].dev = d /\ log[b].dev = d

\* C3: ping never looks up, reads or writes a characteristic; in read and
\* write every characteristic lookup, read and write comes after a successful
\* connect followed by a successful discover_services on the same peripheral.
C3_ConnectDiscoverFirst ==
    /\ command = "ping" => Calls({"find", "read", "write"}) = {}
    /\ \A k \in Calls({"find", "read", "write"}) :
          /\ command \in {"read", "write"}
          /\ log[k].dev # 0
          /\ SessionBefore(k, log[k].dev)

\* a run of C3's case: write has written and then read a characteristic
C3_Witness ==
    /\ command = "write"
    /\ Calls({"write"}) # {} /\ Calls({"read"}) # {}

\* the uuid strings of the discovered characteristics, over all services
DiscoveredUuids ==
    UNION { {UuidToString(services[s].characteristics[c].uuid) :
                c \in 1..Len(services[s].characteristics)} : s \in 1..Len(services) }

\* the uuid string id is the uuid of no discovered characteristic
Absent(id) == id \notin DiscoveredUuids

Discovered == \E k \in Calls({"discover_services"}) : log[k].ok

\* the uuid strings the command resolves
Required ==
    CASE command = "read" -> {char_id}
      [] command = "write" -> {CHAR_WRITE, CHAR_READ}
      [] OTHER -> {}

\* the command ended in the unwrap of a lookup that found nothing
CharacteristicNotFound ==
    /\ result = "panic"
    /\ log # <<>>
    /\ log[Len(log)].op = "find" /\ ~log[Len(log)].ok

\* C4: when a uuid the command resolves is absent from the discovered
\* characteristics, the command fails at the lookup and no read or write is
\* attempted (in write also when only CHAR_READ is missing).
C4_CharacteristicNotFound ==
    (Discovered /\ LET uuids == DiscoveredUuids IN \E id \in Required : id \notin uuids) =>
        /\ Calls({"read", "write"}) = {}
        /\ pc \in {"read_find", "write_find", "done"}
        /\ Done => CharacteristicNotFound

\* a run of C4's case: write found CHAR_WRITE but not CHAR_READ and ended
C4_Witness ==
    /\ command = "write" /\ Discovered /\ Done
    /\ ~Absent(CHAR_WRITE) /\ Absent(CHAR_READ)
    /\ CharacteristicNotFound

GatewayOps ==
    {"Manager::new", "adapters", "start_scan", "peripherals", "properties",
     "connect", "discover_services", "read", "write"}

\* no call into the adapter gateway has failed
GatewayOk == \A k \in Calls(GatewayOps) : log[k].ok

\* the characters read_line has taken from standard input so far
RECURSIVE ConsumedUpTo(_)
ConsumedUpTo(k) ==
    IF k = 0 THEN <<>>
    ELSE ConsumedUpTo(k - 1) \o (IF log[k].op = "read_line" THEN log[k].line ELSE <<>>)

\* standard input as it was when the command started
Input == ConsumedUpTo(Len(log)) \o stdin

\* the number of lines of an input: the newline-terminated ones, and the
\* unterminated rest if there is one
RECURSIVE LineCount(_)
LineCount(input) ==
    IF input = <<>> THEN 0
    ELSE 1 + LineCount(SubSeq(input, LineLen(input, 1) + 1, Len(input)))

\* read_line met the end of standard input, or failed, at position k of log
InputOver(k) == log[k].op = "read_line" /\ (~log[k].ok \/ log[k].n = 0)

\* C5: write's loop terminates: once standard input is at its end, or a line
\* read fails, no further write or read is issued and the command ends with
\* success.  (Stated of the runs in which no gateway call fails.)
C5_LoopEnds ==
    GatewayOk =>
        \A k \in Calls({"read_line"}) :
            InputOver(k) =>
                /\ \A j \in Calls({"write", "read"}) : j < k
                /\ Done => result = "Ok"

\* the writes and reads of the run, in order
WritesAndReads == SelectSeq(log, LAMBDA c : c.op \in {"write", "read"})

\* no call and no line read has failed
NoFailure == \A k \in 1..Len(log) : log[k].ok

\* C6: write's loop alternates writes and reads, a write first, and for the
\* N lines of standard input issues exactly N writes and N reads.
C6_Alternation ==
    command = "write" =>
        /\ \A k \in 1..Len(WritesAndReads) :
              WritesAndReads[k].op = (IF k % 2 = 1 THEN "write" ELSE "read")
        /\ NoFailure =>
              /\ Cardinality(Calls({"write"})) <= LineCount(Input)
              /\ Cardinality(Calls({"read"})) <= LineCount(Input)
        /\ (NoFailure /\ Done /\ Calls({"read_line"}) # {}) =>
              /\ Cardinality(Calls({"write"})) = LineCount(Input)
              /\ Cardinality(Calls({"read"})) = LineCount(Input)

\* C7: the payload of the write that follows the reading of a line is that
\* line with its trailing whitespace removed, and nothing of earlier lines.
\* (trim() removes the line's leading whitespace too; a payload that differs
\* from the claim's only by that is let pass here, and the statement is of
\* the runs in which no gateway call fails.)
C7_Payload ==
    GatewayOk =>
        \A k \in Calls({"write"}) :
            (log[k - 1].op = "read_line" /\ log[k - 1].n > 0) =>
                \/ log[k].data = as_bytes(trim_end(log[k - 1].line))
                \/ log[k].data = as_bytes(trim(log[k - 1].line))

\* C8: a failed call into the adapter gateway is the last call of the run
\* (nothing follows it, and it is not issued again), and the command ends
\* with that error.
C8_AbortOnFailure ==
    \A k \in Calls(GatewayOps) :
        ~log[k].ok =>
            /\ k = Len(log)
            /\ Done
            /\ result = "Err"

\* a run of C8's case: a write failed, and the command ended there in error
C8_Witness ==
    /\ command = "write" /\ Done /\ result = "Err"
    /\ log[Len(log)].op = "write" /\ ~log[Len(log)].ok
    /\ Calls({"read"}) # {}

\* the failures of the taxonomy other than device-not-found: adapter
\* unavailable, scan, connect, discovery, read and write failures, and a
\* characteristic that is not found
FatalFailure ==
    \/ \E k \in Calls(GatewayOps) : ~log[k].ok
    \/ \E k \in Calls({"adapters"}) : log[k].ok /\ log[k].n = 0
    \/ \E k \in Calls({"find"}) : ~log[k].ok

DeviceNotFound == \E k \in 1..Len(out) : out[k] = Stderr("Unable to find device")

\* C9: a command in which the device was not found ends with success; a
\* command in which any other failure of the taxonomy occurred ends with
\* failure.
C9_OnlyNotFoundSucceeds ==
    Done =>
        /\ DeviceNotFound => (result = "Ok" /\ ~FatalFailure)
        /\ FatalFailure => result \in {"Err", "panic"}

\* a run of C9's case: read did not find the device and ended with success
C9_Witness ==
    /\ command = "read" /\ Done /\ DeviceNotFound /\ result = "Ok"

\* C10: write with "hello" (no newline) on standard input issues one write
\* over the whole run, of the bytes hello, without response.  (Stated of the
\* runs in which no gateway call fails.)
C10_Hello ==
    (command = "write" /\ Input = Hello /\ GatewayOk) =>
        /\ Cardinality(Calls({"write"})) <= 1
        /\ \A k \in Calls({"write"}) :
              /\ log[k].data = <<104, 101, 108, 108, 111>>
              /\ log[k].mode = "WithoutResponse"

\* the properties calls of the run that yielded properties
Obtained == {k \in Calls({"properties"}) : log[k].ok /\ log[k].n = 1}

\* "<address>: <name>", the name "Unknown" when the peripheral has none
AddressAndName(p) ==
    IF p.local_name = None THEN AddressToString(p.address) \o ": Unknown"
    ELSE AddressToString(p.address) \o ": " \o p.local_name

\* the lines for the first k enumerated peripherals, in enumeration order
LinesFor(k) == [j \in 1..k |-> Stdout(AddressAndName(peripherals[j]))]

Unusable ==
    \/ Len(args) < 2
    \/ args[2] \notin {"scan", "ping", "read", "write", "help"}
    \/ args[2] \in {"ping", "read", "write"} /\ Len(args) < 3
    \/ args[2] = "read" /\ Len(args) < 4

\* C12: when the command is missing or unrecognized, or lacks a required
\* argument, the usage text is printed and the process ends with success
\* without any adapter operation.
C12_UsageOnly ==
    Unusable =>
        /\ log = <<>>
        /\ pc \in {"main", "done"}
        /\ Done =>
              /\ result = "Ok"
              /\ out # <<>>
              /\ out[Len(out)] = Stderr("HELP_MSG")

\* a run of C12's case: read was given an address and no uuid, and has ended
C12_Witness ==
    /\ Len(args) = 3 /\ args[2] = "read"
    /\ Done /\ result = "Ok" /\ log = <<>>
    /\ out = <<Stderr("No characteristic uuid specified"), Stderr("HELP_MSG")>>

\* the positions of out holding the "Connected" acknowledgement
Acknowledged == {k \in 1..Len(out) : out[k] = Stdout("Connected")}

ConnectSucceeded == \E k \in Calls({"connect"}) : log[k].ok

\* C13: in ping, read and write "Connected" is printed once, after connect
\* has succeeded and before discover_services is invoked; it is not printed
\* when the device is not found or connect fails.
C13_ConnectedOnce ==
    Locating =>
        /\ Cardinality(Acknowledged) = (IF ConnectSucceeded THEN 1 ELSE 0)
        \* it is in out when discover_services is about to be invoked, and
        \* nothing was printed between the connect and it
        /\ pc = "discover" =>
              /\ Acknowledged = {Len(out)}
              /\ Calls({"discover_services"}) = {}
              /\ log[Len(log)].op = "connect"
        /\ Calls({"discover_services"}) # {} => Acknowledged # {}
        /\ (DeviceNotFound \/ \E k \in Calls({"connect"}) : ~log[k].ok) =>
              Acknowledged = {}

\* a run of C13's case: ping connected, printed the acknowledgement, then
\* discovered the services and ended
C13_Witness ==
    /\ command = "ping" /\ Done /\ result = "Ok"
    /\ Discovered
    /\ Cardinality(Acknowledged) = 1

\* the positions, in the iteration order of dev.characteristics(), of the
\* characteristics whose uuid string is id
PositionsOf(id) ==
    LET chars == characteristics(services)
    IN {k \in 1..Len(chars) : UuidToString(chars[k].uuid) = id}

\* the first of them, 0 when there is none
FirstOf(id) ==
    LET found == PositionsOf(id)
    IN IF found = {} THEN 0 ELSE CHOOSE k \in found : \A m \in found : k <= m

\* C14: a characteristic is resolved to the first one, in the iteration order
\* of the flattened discovered set, whose uuid string equals the requested
\* uuid; it is that one which is read or written, also when several
\* characteristics share the uuid.
C14_FirstCharacteristic ==
    LET finds == Calls({"find"})
    IN finds # {} =>
         /\ command = "read" =>
               LET first == FirstOf(char_id)
               IN /\ \A k \in finds : log[k].ch = first /\ log[k].ok = (first # 0)
                  /\ \A k \in Calls({"read"}) : log[k].ch = first /\ first # 0
         /\ command = "write" =>
               LET w == FirstOf(CHAR_WRITE)
                   r == FirstOf(CHAR_READ)
                   f == CHOOSE k \in finds : \A m \in finds : k <= m
               IN /\ log[f].ch = w /\ log[f].ok = (w # 0)
                  /\ \A k \in finds \ {f} : log[k].ch = r /\ log[k].ok = (r # 0)
                  /\ \A k \in Calls({"write"}) : log[k].ch = w /\ w # 0
                  /\ \A k \in Calls({"read"}) : log[k].ch = r /\ r # 0

\* a run of C14's case: two discovered characteristics have the uuid read was
\* given, and the read was made on the first of them
C14_Witness ==
    /\ command = "read"
    /\ Cardinality(PositionsOf(char_id)) >= 2
    /\ \E k \in Calls({"read"}) :
          /\ log[k].ok
          /\ log[k].ch = FirstOf(char_id)
          /\ \E m \in PositionsOf(char_id) : m > log[k].ch

\* C15: the peripheral list is enumerated only after start_scan has succeeded
\* and the scan window has elapsed, 3 seconds in scan, ping and read and 2
\* seconds in write; start_scan is invoked once.
C15_ScanThenWindow ==
    LET scans == Calls({"start_scan"})
    IN /\ Cardinality(scans) <= 1
       /\ Cardinality(Calls({"sleep"})) <= 1
       /\ Cardinality(Calls({"peripherals"})) <= 1
       \* once past the start of the scan, it was invoked
       /\ pc \in {"sleep", "peripherals", "scan_loop", "locate_loop"} =>
             Cardinality(scans) = 1
       /\ \A k \in Calls({"sleep"}) :
             /\ k > 1
             /\ log[k - 1].op = "start_scan" /\ log[k - 1].ok
             /\ command \in {"scan", "ping", "read"} => log[k].n = 3
             /\ command = "write" => log[k].n = 2
       /\ \A k \in Calls({"peripherals"}) :
             /\ k > 2
             /\ log[k - 1].op = "sleep"
             /\ log[k - 2].op = "start_scan" /\ log[k - 2].ok

\* a run of C15's case: write has enumerated the peripherals after a window
\* of two seconds
C15_Witness ==
    /\ command = "write" /\ Enumerated
    /\ \E k \in Calls({"sleep"}) : log[k].n = 2

\* the scan was started, and nothing the command did since has stopped it
Scanning ==
    \E k \in Calls({"start_scan"}) :
        /\ log[k].ok
        /\ \A j \in (k + 1)..Len(log) : log[j].op \notin {"stop_scan", "start_scan"}

\* C16: no command stops the scan it started: once start_scan has succeeded
\* the scan stays on through location, connect, discovery and every read and
\* write, until the command ends.
C16_ScanNeverStopped ==
    /\ Calls({"stop_scan"}) = {}
    /\ (\E k \in Calls({"start_scan"}) : log[k].ok) => Scanning
    /\ Calls({"peripherals", "properties", "connect", "discover_services",
              "find", "read", "write"}) # {} => Scanning

\* a run of C16's case: write has located the device, connected, discovered,
\* written and read with the scan still on
C16_Witness ==
    /\ command = "write" /\ Scanning
    /\ Calls({"connect"}) # {} /\ Calls({"discover_services"}) # {}
    /\ \E k \in Calls({"write"}) : log[k].ok
    /\ \E k \in Calls({"read"}) : log[k].ok
    /\ pc = "read_line"

\* the lines of out that print a byte vector
BytesPrinted == {k \in 1..Len(out) : out[k].text = "{:?}"}

\* C17: read, once the device is found, connect and discovery have succeeded
\* and the characteristic is resolved, issues exactly one read, on the
\* resolved characteristic, prints the bytes it returns, and issues no write.
C17_ReadOnce ==
    command = "read" =>
        LET reads == Calls({"read"})
            resolved == {k \in Calls({"find"}) : log[k].ok}
        IN /\ Calls({"write"}) = {}
           /\ Cardinality(reads) <= 1
           /\ resolved # {} => (pc = "read" \/ Cardinality(reads) = 1)
           /\ \A k \in reads :
                 /\ k = Len(log) /\ Done
                 /\ log[k - 1].op = "find" /\ log[k - 1].ok
                 /\ log[k].ch = log[k - 1].ch
                 /\ log[k].dev = dev
                 /\ log[k].ok =>
                       /\ result = "Ok"
                       /\ BytesPrinted = {Len(out)}
                       /\ out[Len(out)] = StdoutBytes(log[k].data)
                 /\ ~log[k].ok => BytesPrinted = {}
           /\ reads = {} => BytesPrinted = {}

\* a run of C17's case: read has read the bytes O, K and printed them
C17_Witness ==
    /\ command = "read" /\ Done /\ result = "Ok"
    /\ \E k \in Calls({"read"}) : log[k].ok /\ log[k].data = <<79, 75>>
    /\ out[Len(out)] = StdoutBytes(<<79, 75>>)

\* the properties queries that failed or yielded no properties
PropertiesLost == {k \in Calls({"properties"}) : ~log[k].ok \/ log[k].n = 0}

\* C18: while ping, read and write look for the device, the properties of
\* every enumerated peripheral are queried in enumeration order with no early
\* exit; a query that fails or yields no properties ends the command with a
\* failure, with no connect attempted and without the device-not-found exit,
\* whether or not the target was matched earlier or is absent.
C18_PropertiesOfAll ==
    Locating =>
        LET queries == Calls({"properties"})
            first == Last(Calls({"peripherals"}))
        IN /\ \A k \in queries :
                 /\ first # 0 /\ log[first].ok
                 /\ log[k].dev = k - first
                 /\ log[k].dev \in 1..Len(peripherals)
           /\ \A k \in PropertiesLost :
                 /\ k = Len(log)
                 /\ Done /\ result \in {"Err", "panic"}
                 /\ Calls({"connect"}) = {}
                 /\ ~DeviceNotFound
           /\ (Calls({"connect"}) # {} \/ DeviceNotFound) =>
                 /\ PropertiesLost = {}
                 /\ Cardinality(queries) = Len(peripherals)

\* a run of C18's case: the target was matched by the first peripheral, the
\* query of the second one failed and the command ended there
C18_Witness ==
    /\ Locating /\ Done /\ result = "Err"
    /\ 1 \in SeenMatching
    /\ Len(peripherals) = 2
    /\ log[Len(log)].op = "properties" /\ log[Len(log)].dev = 2 /\ ~log[Len(log)].ok
    /\ Calls({"connect"}) = {}
====
